---- MODULE Spec2Model ----
(***************************************************************************)
(* BinanceMonitorDO (binance-monitor.ts): the Durable Object that polls    *)
(* the announcement feed on every alarm, diffs the page against            *)
(* lastAnnouncementId, pushes the new listing announcements to the         *)
(* registered webhooks and re-arms its alarm.                              *)
(*                                                                         *)
(* Granularity.  alarm() is cut at its awaits: the feed fetch, the         *)
(* Promise.all of the webhook POSTs, the storage writes.  A storage call   *)
(* takes effect when it is made; the handler is suspended after it.  The   *)
(* admin handlers (fetch(request), start, stop) await storage only, so     *)
(* each is one step; they may run between any two steps of alarm().        *)
(* The runtime runs one alarm() at a time and constructs the object anew   *)
(* only when no alarm() is running.                                        *)
(***************************************************************************)
EXTENDS Integers, Sequences, FiniteSets, TLC

\* ---------------------------------------------------------------- bounds
MaxId == 2          \* announcement ids are 0 .. MaxId
MaxHooks == 2       \* at most this many registered webhooks
PageSize == 2       \* entries in a page (pageSize of the feed query, scaled down)

\* ------------------------------------------------------ program constants
PollingInterval == 1    \* parseInt(env.POLLING_INTERVAL) || 3000, in ticks

Null == -1              \* lastAnnouncementId: null
NoAlarm == -1           \* the storage holds no alarm

ListingMarker == <<"Binance", "Will", "List">>

Urls == {"u1", "u2"}
\* the registrations tried: one without a secret, one with
HookInputs == {[url |-> "u1", secret |-> ""], [url |-> "u2", secret |-> "s"]}
CoinLists == {<<"BTC">>}

\* titles the feed serves: a listing, something else
TitleList == <<"Binance", "Will", "List", "ABC">>
TitleOther == <<"Market", "Update">>
\* an entry whose title field is not a string
TitleMissing == <<"<undefined>">>
Titles == {TitleList, TitleOther}
\* a feed that also serves malformed entries
FaultTitles == {TitleList, TitleMissing}

Ids == 0 .. MaxId

VARIABLES
    webhooks,            \* this.webhooks: sequence of [url, secret]
    watchList,           \* this.watchList
    lastAnnouncementId,  \* this.lastAnnouncementId: Null or an id
    isMonitoring,        \* this._isMonitoring
    storage,             \* state.storage: key -> <<>> (never written) or <<value>>
    alarmIn,             \* state.storage alarm: NoAlarm, or ticks until it is due
    feed,                \* the announcement feed, newest first
    pc,                  \* where alarm() is suspended, "idle" when not running
    announcements,       \* alarm(): the snapshot of the running / last cycle
    idx,                 \* alarm(): position of the for loop
    deliveries,          \* notifyWebhooks(): state of each webhook promise
    posts,               \* notifyWebhooks(): the POSTs made by this invocation
    hooksAtStart,        \* this.webhooks when the invocation started
    markerAtStart,       \* lastAnnouncementId when the cycle read its snapshot
    storedAtStart,       \* what storage held for lastAnnouncementId at that time
    cycleNotified,       \* ids passed to notifyWebhooks in this cycle, in order
    branch,              \* the branch the running / last cycle took
    setAlarmCalls,       \* setAlarm calls of the running / last cycle
    deliveryFailed,      \* a delivery of this cycle failed
    notifyCycles,        \* id -> number of cycles that notified it (capped at 2)
    markerMissed         \* some cycle did not find its marker in its snapshot

vars == << webhooks, watchList, lastAnnouncementId, isMonitoring, storage,
           alarmIn, feed, pc, announcements, idx, deliveries, posts,
           hooksAtStart, markerAtStart, storedAtStart, cycleNotified, branch,
           setAlarmCalls, deliveryFailed, notifyCycles, markerMissed >>

memVars == << webhooks, watchList, lastAnnouncementId, isMonitoring >>
cycleVars == << pc, announcements, idx, deliveries, posts, hooksAtStart,
                markerAtStart, storedAtStart, cycleNotified, branch,
                setAlarmCalls, deliveryFailed >>
histVars == << notifyCycles, markerMissed >>

\* ---------------------------------------------------------------- helpers
\* String.prototype.includes on a title (a sequence of words)
Includes(title, marker) ==
    \E i \in 0 .. (Len(title) - Len(marker)) :
        SubSeq(title, i + 1, i + Len(marker)) = marker

\* `stored.get(k) || dflt` of the constructor, for a number
NumberOr(opt, dflt) == IF opt = <<>> \/ opt[1] = 0 THEN dflt ELSE opt[1]
\* ... for a boolean
BoolOr(opt, dflt) == IF opt = <<>> \/ opt[1] = FALSE THEN dflt ELSE opt[1]
\* ... for an array (an array is never falsy)
ArrayOr(opt, dflt) == IF opt = <<>> THEN dflt ELSE opt[1]

\* storage.put(key, value)
Put(st, key, value) == [st EXCEPT ![key] = <<value>>]

\* storage.setAlarm(Date.now() + this.pollingInterval)
SetAlarm == PollingInterval

\* the feed query: page 1 of the catalog
Page(f) == SubSeq(f, 1, IF Len(f) < PageSize THEN Len(f) ELSE PageSize)

\* variant: only the first entry with the url is removed
RECURSIVE FilterUrlFirst(_, _)
FilterUrlFirst(hooks, u) ==
    IF hooks = <<>> THEN <<>>
    ELSE IF Head(hooks).url # u
         THEN <<Head(hooks)>> \o FilterUrlFirst(Tail(hooks), u)
         ELSE Tail(hooks)

\* Array.prototype.filter((w) => w.url !== urlToDelete)
RECURSIVE FilterUrl(_, _)
FilterUrl(hooks, u) ==
    IF hooks = <<>> THEN <<>>
    ELSE IF Head(hooks).url # u
         THEN <<Head(hooks)>> \o FilterUrl(Tail(hooks), u)
         ELSE FilterUrl(Tail(hooks), u)

SeqIds(s) == { s[i].id : i \in 1 .. Len(s) }
Range(s) == { s[i] : i \in 1 .. Len(s) }

\* ------------------------------------------------------------------- Init
\* the object constructed over an empty storage, nothing published yet
Init ==
    /\ webhooks = <<>>
    /\ watchList = <<>>
    /\ lastAnnouncementId = Null
    /\ isMonitoring = FALSE
    /\ storage = [k \in {"webhooks", "lastAnnouncementId", "isMonitoring",
                         "watchList"} |-> <<>>]
    /\ alarmIn = NoAlarm
    /\ feed = <<>>
    /\ pc = "idle"
    /\ announcements = <<>>
    /\ idx = 0
    /\ deliveries = <<>>
    /\ posts = <<>>
    /\ hooksAtStart = <<>>
    /\ markerAtStart = Null
    /\ storedAtStart = <<>>
    /\ cycleNotified = <<>>
    /\ branch = "none"
    /\ setAlarmCalls = 0
    /\ deliveryFailed = FALSE
    /\ notifyCycles = [i \in Ids |-> 0]
    /\ markerMissed = FALSE

\* ------------------------------------------------------------ environment
\* the feed publishes a new announcement on top.  Only the fetch reads the
\* feed: a publication during the rest of a cycle is the same as one right
\* after the cycle, and is taken then.
Publish(title) ==
    /\ pc \in {"idle", "fetching"}
    /\ LET id == IF feed = <<>> THEN 0 ELSE feed[1].id + 1 IN
        /\ id <= MaxId
        /\ feed' = <<[id |-> id, title |-> title]>> \o feed
    /\ UNCHANGED << memVars, storage, alarmIn, cycleVars, histVars >>

\* time passes
Tick ==
    /\ alarmIn > 0
    /\ alarmIn' = alarmIn - 1
    /\ UNCHANGED << memVars, storage, feed, cycleVars, histVars >>

\* ------------------------------------------------------------ constructor
Restart ==
    /\ pc = "idle"
    /\ webhooks' = ArrayOr(storage["webhooks"], <<>>)
    /\ lastAnnouncementId' = NumberOr(storage["lastAnnouncementId"], Null)
    /\ isMonitoring' = BoolOr(storage["isMonitoring"], FALSE)
    /\ watchList' = ArrayOr(storage["watchList"], <<>>)
    /\ alarmIn' = IF isMonitoring' THEN SetAlarm ELSE alarmIn
    /\ UNCHANGED << storage, feed, cycleVars, histVars >>

\* ------------------------------------------------------------- start, stop
\* variant: start() does not look at the flag
AlreadyMonitoringNever(monitoring) == FALSE

\* line 131: start() returns at once when the flag is set
AlreadyMonitoring(monitoring) == monitoring

Start ==
    /\ IF AlreadyMonitoring(isMonitoring)
       THEN UNCHANGED << isMonitoring, storage, alarmIn >>
       ELSE /\ isMonitoring' = TRUE
            /\ storage' = Put(storage, "isMonitoring", TRUE)
            /\ alarmIn' = SetAlarm
    /\ UNCHANGED << webhooks, watchList, lastAnnouncementId, feed, cycleVars,
                    histVars >>

\* variant: stop() also forgets the marker
StopForgets ==
    /\ isMonitoring' = FALSE
    /\ storage' = Put(storage, "isMonitoring", FALSE)
    /\ alarmIn' = NoAlarm
    /\ lastAnnouncementId' = Null
    /\ UNCHANGED << webhooks, watchList, feed, cycleVars, histVars >>

Stop ==
    /\ isMonitoring' = FALSE
    /\ storage' = Put(storage, "isMonitoring", FALSE)
    /\ alarmIn' = NoAlarm
    /\ UNCHANGED << webhooks, watchList, lastAnnouncementId, feed, cycleVars,
                    histVars >>

\* ------------------------------------------------------------ admin routes
\* POST /webhook
RegisterWebhook(hook) ==
    /\ Len(webhooks) < MaxHooks
    /\ webhooks' = Append(webhooks, [url |-> hook.url, secret |-> hook.secret])
    /\ storage' = Put(storage, "webhooks", webhooks')
    /\ UNCHANGED << watchList, lastAnnouncementId, isMonitoring, alarmIn, feed,
                    cycleVars, histVars >>

\* DELETE /webhook/<url>
DeleteWebhook(u) ==
    /\ webhooks' = FilterUrl(webhooks, u)
    /\ storage' = Put(storage, "webhooks", webhooks')
    /\ UNCHANGED << watchList, lastAnnouncementId, isMonitoring, alarmIn, feed,
                    cycleVars, histVars >>

\* POST /watch with an array body
SetWatchList(coins) ==
    /\ watchList' = coins
    /\ storage' = Put(storage, "watchList", watchList')
    /\ UNCHANGED << webhooks, lastAnnouncementId, isMonitoring, alarmIn, feed,
                    cycleVars, histVars >>

\* DELETE /watch
ClearWatchList ==
    /\ watchList' = <<>>
    /\ storage' = Put(storage, "watchList", watchList')
    /\ UNCHANGED << webhooks, lastAnnouncementId, isMonitoring, alarmIn, feed,
                    cycleVars, histVars >>

\* POST /watch with a body whose coins is not an array: 400
RejectWatchList == UNCHANGED vars

\* GET /webhooks: answers this.webhooks
ListWebhooks == UNCHANGED vars

\* GET /watch: answers this.watchList
GetWatchList == UNCHANGED vars

\* any other method or path: 404
NotFound == UNCHANGED vars

\* ------------------------------------------------------------------ alarm()
\* variant: the finally block never re-arms
FinallyAlarmNever(monitoring, alarm) == alarm

\* variant: the finally block re-arms without looking at the flag
FinallyAlarmAlways(monitoring, alarm) == SetAlarm

\* the finally block: re-arm when monitoring
FinallyAlarm(monitoring, alarm) == IF monitoring THEN SetAlarm ELSE alarm

\* variant: the loop never breaks at the marker
RECURSIVE WalkNoBreak(_, _, _)
WalkNoBreak(S, i, last) ==
    IF i > Len(S) THEN [kind |-> "end", at |-> i]
    ELSE IF S[i].title = TitleMissing THEN [kind |-> "throw", at |-> i]
    ELSE IF Includes(S[i].title, ListingMarker) THEN [kind |-> "notify", at |-> i]
    ELSE WalkNoBreak(S, i + 1, last)

\* variant: the break is tested after the entry was handled
RECURSIVE WalkInclusive(_, _, _)
WalkInclusive(S, i, last) ==
    IF i > Len(S) THEN [kind |-> "end", at |-> i]
    ELSE IF i > 1 /\ S[i - 1].id = last THEN [kind |-> "end", at |-> i]
    ELSE IF S[i].title = TitleMissing THEN [kind |-> "throw", at |-> i]
    ELSE IF Includes(S[i].title, ListingMarker) THEN [kind |-> "notify", at |-> i]
    ELSE WalkInclusive(S, i + 1, last)

\* variant: the loop looks at the newest entry only
WalkNewestOnly(S, i, last) ==
    IF i > 1 \/ i > Len(S) THEN [kind |-> "end", at |-> i]
    ELSE IF S[i].id = last THEN [kind |-> "end", at |-> i]
    ELSE IF S[i].title = TitleMissing THEN [kind |-> "throw", at |-> i]
    ELSE IF Includes(S[i].title, ListingMarker) THEN [kind |-> "notify", at |-> i]
    ELSE [kind |-> "end", at |-> i + 1]

\* the for loop from position i up to its next await, its break or its end
RECURSIVE Walk(_, _, _)
Walk(S, i, last) ==
    IF i > Len(S) THEN [kind |-> "end", at |-> i]
    ELSE IF S[i].id = last THEN [kind |-> "end", at |-> i]
    ELSE IF S[i].title = TitleMissing THEN [kind |-> "throw", at |-> i]
    ELSE IF Includes(S[i].title, ListingMarker) THEN [kind |-> "notify", at |-> i]
    ELSE Walk(S, i + 1, last)

\* variant: the oldest entry of the page is taken for the newest
LatestIdOldest(S) == S[Len(S)].id

\* the value the cycle stores after its walk (and on the first run)
LatestId(S) == S[1].id

\* variant: no baseline on the first run
IsFirstRunNever(last) == FALSE

\* line 156: nothing seen yet
IsFirstRun(last) == last = Null

\* variant: no try/catch around the POST
SettleFailedRejects == "rejected"

\* a webhook promise whose POST failed: the catch logs, the promise fulfills
SettleFailed == "fulfilled"

\* variant: a failed POST is sent again
AfterFailureRetry(sent, u) == Append(sent, u)

\* what a failed POST leaves of the invocation's POSTs: it is logged, no more
AfterFailure(sent, u) == sent

\* the POSTs of one notifyWebhooks: one per webhook, all made at once
PostsFor(hooks) == [j \in 1 .. Len(hooks) |-> hooks[j].url]

\* the alarm fires
Wake ==
    /\ pc = "idle"
    /\ alarmIn = 0
    /\ alarmIn' = NoAlarm
    /\ pc' = "fetching"
    /\ announcements' = <<>>
    /\ markerAtStart' = lastAnnouncementId
    /\ storedAtStart' = storage["lastAnnouncementId"]
    /\ branch' = "none"
    /\ setAlarmCalls' = 0
    /\ UNCHANGED << memVars, storage, feed, idx, deliveries, posts,
                    hooksAtStart, cycleNotified, deliveryFailed, histVars >>

\* (catch, logged, and) finally: alarm() returns
EndCycle(br) ==
    /\ pc' = "idle"
    /\ branch' = br
    /\ alarmIn' = FinallyAlarm(isMonitoring, alarmIn)
    /\ idx' = 0
    /\ deliveries' = <<>>
    /\ posts' = <<>>
    /\ hooksAtStart' = <<>>
    /\ markerAtStart' = Null
    /\ storedAtStart' = <<>>
    /\ cycleNotified' = <<>>
    /\ setAlarmCalls' = setAlarmCalls + (IF isMonitoring THEN 1 ELSE 0)
    /\ deliveryFailed' = FALSE

\* the loop of lines 160-167 resumed at position i, then lines 168-169
ContinueWalk(S, i) ==
    LET w == Walk(S, i, lastAnnouncementId) IN
    CASE w.kind = "notify" ->
            /\ pc' = "notifying"
            /\ branch' = "dispatch"
            /\ idx' = w.at
            /\ hooksAtStart' = webhooks
            /\ deliveries' = [j \in 1 .. Len(webhooks) |-> "pending"]
            /\ posts' = PostsFor(webhooks)
            /\ cycleNotified' = Append(cycleNotified, S[w.at].id)
            /\ notifyCycles' =
                  IF S[w.at].id \in Range(cycleNotified) \/ notifyCycles[S[w.at].id] = 2
                  THEN notifyCycles
                  ELSE [notifyCycles EXCEPT ![S[w.at].id] = @ + 1]
            /\ UNCHANGED << lastAnnouncementId, storage, alarmIn, setAlarmCalls,
                            markerAtStart, storedAtStart, deliveryFailed >>
      [] w.kind = "end" ->
            /\ pc' = "persisting"
            /\ branch' = "dispatch"
            /\ idx' = w.at
            /\ lastAnnouncementId' = LatestId(S)
            /\ storage' = Put(storage, "lastAnnouncementId", LatestId(S))
            /\ hooksAtStart' = <<>>
            /\ deliveries' = <<>>
            /\ posts' = <<>>
            /\ UNCHANGED << alarmIn, setAlarmCalls, cycleNotified, notifyCycles,
                            markerAtStart, storedAtStart, deliveryFailed >>
      [] w.kind = "throw" ->
            /\ EndCycle("error")
            /\ UNCHANGED << lastAnnouncementId, storage, notifyCycles >>

\* variant: a failed fetch hands back the page it could not read
OnFetchErrorStale == Page(feed)

\* the catch of fetchAnnouncements(): logged, the result is []
OnFetchError == <<>>

\* fetchAnnouncements() returns (ok: the page; otherwise the catch's [])
FetchDone(ok) ==
    /\ pc = "fetching"
    /\ LET S == IF ok THEN Page(feed) ELSE OnFetchError IN
        /\ announcements' = S
        /\ IF S = <<>>
           THEN /\ IF isMonitoring
                   THEN /\ alarmIn' = SetAlarm
                        /\ setAlarmCalls' = setAlarmCalls + 1
                        /\ pc' = "emptyRearm"
                        /\ branch' = "empty"
                        /\ UNCHANGED << idx, hooksAtStart, deliveries, posts,
                                        cycleNotified, markerAtStart,
                                        storedAtStart, deliveryFailed >>
                   ELSE EndCycle("empty")
                /\ UNCHANGED << lastAnnouncementId, storage, histVars >>
           ELSE IF IsFirstRun(lastAnnouncementId)
           THEN /\ lastAnnouncementId' = LatestId(S)
                /\ storage' = Put(storage, "lastAnnouncementId", LatestId(S))
                /\ pc' = "persisting"
                /\ branch' = "baseline"
                /\ UNCHANGED << alarmIn, setAlarmCalls, idx, hooksAtStart,
                                deliveries, posts, cycleNotified, markerAtStart,
                                storedAtStart, deliveryFailed, histVars >>
           ELSE IF LatestId(S) # lastAnnouncementId
           THEN /\ ContinueWalk(S, 1)
                /\ markerMissed' =
                      (markerMissed \/ lastAnnouncementId \notin SeqIds(S))
           ELSE /\ EndCycle("nochange")
                /\ UNCHANGED << lastAnnouncementId, storage, histVars >>
    /\ UNCHANGED << webhooks, watchList, isMonitoring, feed >>

\* the await of line 149 returns: the early return runs the finally block
EmptyRearmDone ==
    /\ pc = "emptyRearm"
    /\ EndCycle("empty")
    /\ UNCHANGED << memVars, storage, feed, announcements, histVars >>

\* the storage.put of line 158 / 169 returns
PersistDone ==
    /\ pc = "persisting"
    /\ EndCycle(branch)
    /\ UNCHANGED << memVars, storage, feed, announcements, histVars >>

\* the storage.put of line 158 / 169 rejects: the key keeps the value it had,
\* the catch logs the error
PersistFailed ==
    /\ pc = "persisting"
    /\ storage' = [storage EXCEPT !["lastAnnouncementId"] = storedAtStart]
    /\ EndCycle("error")
    /\ UNCHANGED << memVars, feed, announcements, histVars >>

\* one webhook POST of the running invocation answers (ok) or fails
DeliveryDone(j, ok) ==
    /\ pc = "notifying"
    /\ j \in 1 .. Len(deliveries)
    /\ deliveries[j] = "pending"
    /\ deliveries' = [deliveries EXCEPT ![j] = IF ok THEN "fulfilled" ELSE SettleFailed]
    /\ posts' = IF ok THEN posts ELSE AfterFailure(posts, hooksAtStart[j].url)
    /\ deliveryFailed' = (deliveryFailed \/ ~ok)
    /\ UNCHANGED << memVars, storage, alarmIn, feed, pc, announcements, idx,
                    hooksAtStart, markerAtStart, storedAtStart, cycleNotified,
                    branch, setAlarmCalls, histVars >>

\* variant: the await is over as soon as one promise is fulfilled
AllFulfilledFirst(d) == d = <<>> \/ \E j \in 1 .. Len(d) : d[j] = "fulfilled"

\* Promise.all(notifications) resolves when every promise is fulfilled
AllFulfilled(d) == \A j \in 1 .. Len(d) : d[j] = "fulfilled"

\* Promise.all settles: resolved when every promise is, rejected with the first
NotifyDone ==
    /\ pc = "notifying"
    /\ IF \E j \in 1 .. Len(deliveries) : deliveries[j] = "rejected"
       THEN TRUE
       ELSE AllFulfilled(deliveries)
    /\ IF \E j \in 1 .. Len(deliveries) : deliveries[j] = "rejected"
       THEN /\ EndCycle("error")
            /\ UNCHANGED << lastAnnouncementId, storage, notifyCycles >>
       ELSE ContinueWalk(announcements, idx + 1)
    /\ UNCHANGED << webhooks, watchList, isMonitoring, feed, announcements,
                    markerMissed >>

\* ------------------------------------------------------------ specification
Admin ==
    \/ Start
    \/ Stop
    \/ \E hook \in HookInputs : RegisterWebhook(hook)
    \/ \E u \in Urls : DeleteWebhook(u)
    \/ \E coins \in CoinLists : SetWatchList(coins)
    \/ ClearWatchList
    \/ RejectWatchList
    \/ ListWebhooks
    \/ GetWatchList
    \/ NotFound

Cycle ==
    \/ Wake
    \/ \E ok \in BOOLEAN : FetchDone(ok)
    \/ EmptyRearmDone
    \/ PersistDone
    \/ \E j \in 1 .. MaxHooks, ok \in BOOLEAN : DeliveryDone(j, ok)
    \/ NotifyDone

Next ==
    \/ \E title \in Titles : Publish(title)
    \/ Tick
    \/ Restart
    \/ Admin
    \/ Cycle

Spec == Init /\ [][Next]_vars

\* the same program over a feed that serves malformed entries
FaultNext ==
    \/ \E title \in FaultTitles : Publish(title)
    \/ Tick
    \/ Restart
    \/ Admin
    \/ Cycle

FaultSpec == Init /\ [][FaultNext]_vars

\* the same program over a storage whose put of lastAnnouncementId may reject
PutFaultNext ==
    \/ Next
    \/ PersistFailed

PutFaultSpec == Init /\ [][PutFaultNext]_vars

\* time passes, a due alarm is delivered, every network call and storage
\* call of a running cycle returns
LiveSpec ==
    /\ Init
    /\ [][Next]_vars
    /\ WF_vars(Tick)
    /\ WF_vars(Wake)
    /\ WF_vars(\E ok \in BOOLEAN : FetchDone(ok))
    /\ WF_vars(EmptyRearmDone)
    /\ WF_vars(PersistDone)
    /\ WF_vars(\E j \in 1 .. MaxHooks, ok \in BOOLEAN : DeliveryDone(j, ok))
    /\ WF_vars(NotifyDone)

\* ================================================================= claims
\* the step on which alarm() returns
EndOfCycle == pc # "idle" /\ pc' = "idle"

IsListing(entry) == Includes(entry.title, ListingMarker)

\* position of the first entry of S whose id is m (m occurs in S)
FirstPos(S, m) ==
    CHOOSE i \in 1 .. Len(S) :
        S[i].id = m /\ \A j \in 1 .. (i - 1) : S[j].id # m

\* ids of the listing entries of S that precede the first occurrence of m
NewListings(S, m) ==
    { S[i].id : i \in { j \in 1 .. (FirstPos(S, m) - 1) : IsListing(S[j]) } }

\* C1: a cycle whose marker is present and found in its non-empty snapshot
\* passes to notifyWebhooks exactly the listing entries that precede the
\* first occurrence of the marker, and no other entry.
C1_NotifiesExactlyNewListings ==
    [][ (/\ EndOfCycle
         /\ announcements' # <<>>
         /\ markerAtStart # Null
         /\ markerAtStart \in SeqIds(announcements'))
        => Range(cycleNotified) = NewListings(announcements', markerAtStart) ]_vars

\* a dispatch has walked up to a marker that is itself a listing: the newer
\* listing was notified, the marker entry was not
C1_Witness ==
    /\ pc = "persisting"
    /\ branch = "dispatch"
    /\ Len(announcements) = 2
    /\ markerAtStart = announcements[2].id
    /\ IsListing(announcements[1])
    /\ IsListing(announcements[2])
    /\ cycleNotified = << announcements[1].id >>

\* C2: as long as every cycle found its marker in its snapshot, no id was
\* passed to notifyWebhooks in more than one cycle.
C2_NotifiedInAtMostOneCycle ==
    ~markerMissed => \A id \in Ids : notifyCycles[id] <= 1

\* two dispatching cycles have run, the entry notified by the first was still
\* in the page of the second
C2_Witness ==
    /\ ~markerMissed
    /\ notifyCycles[1] = 1
    /\ notifyCycles[2] = 1
    /\ pc = "idle"

\* a step of a cycle in flight
InFlightStep ==
    \/ \E ok \in BOOLEAN : FetchDone(ok)
    \/ EmptyRearmDone
    \/ PersistDone
    \/ \E j \in 1 .. MaxHooks, ok \in BOOLEAN : DeliveryDone(j, ok)
    \/ NotifyDone

\* the cycle that returns on this step has set and persisted the newest id
PersistedLatest ==
    /\ lastAnnouncementId' = announcements'[1].id
    /\ storage'["lastAnnouncementId"] = << announcements'[1].id >>

\* C3: when alarm() returns, whatever its branch and whether or not it caught
\* an exception, the alarm is set one polling interval ahead if the flag is
\* true at that moment, and no alarm is set if it is false.
C3_EveryCycleRearmsIffMonitoring ==
    [][ EndOfCycle =>
            IF isMonitoring'
            THEN alarmIn' = PollingInterval
            ELSE alarmIn' = NoAlarm ]_vars

\* a cycle that caught the exception of a malformed entry has returned and
\* left the alarm armed
C3_Witness ==
    /\ pc = "idle"
    /\ branch = "error"
    /\ isMonitoring
    /\ alarmIn = PollingInterval

\* C4: whenever the flag is true and no cycle is in flight an alarm is set,
\* and if monitoring stays enabled, cycles start again and again.
C4_PollingNeverStops ==
    /\ [](isMonitoring /\ pc = "idle" => alarmIn # NoAlarm)
    /\ <>[]isMonitoring => []<>(pc = "fetching")

\* C5: while the flag is false no alarm is set; a cycle in flight when stop()
\* ran can still take its next step, persists its update and returns without
\* arming the alarm.
C5_StopLeavesNoWakeArmed ==
    /\ [](~isMonitoring => alarmIn = NoAlarm)
    /\ [](pc # "idle" /\ ~isMonitoring => ENABLED InFlightStep)
    /\ [][ EndOfCycle /\ ~isMonitoring =>
              /\ alarmIn' = NoAlarm
              /\ branch' \in {"baseline", "dispatch"} => PersistedLatest ]_vars

\* stop() ran while a dispatching cycle was in flight; the cycle went on to
\* persist its update
C5_Witness ==
    /\ pc = "persisting"
    /\ branch = "dispatch"
    /\ ~isMonitoring
    /\ alarmIn = NoAlarm
    /\ cycleNotified # <<>>
    /\ storage["lastAnnouncementId"] = << announcements[1].id >>

\* C6: a failed delivery leaves every webhook of the invocation with its
\* POST, rejects no promise, and the cycle it happened in still returns
\* through the update and persist of the newest id and re-arms the alarm.
C6_DeliveryFailureIsIsolated ==
    /\ [](pc = "notifying" =>
            /\ \A j \in 1 .. Len(hooksAtStart) :
                  \E k \in 1 .. Len(posts) : posts[k] = hooksAtStart[j].url
            /\ \A j \in 1 .. Len(deliveries) : deliveries[j] # "rejected")
    /\ [][ EndOfCycle /\ deliveryFailed =>
              /\ branch' = "dispatch"
              /\ PersistedLatest
              /\ isMonitoring' => alarmIn' = PollingInterval ]_vars

\* a delivery failed, the other webhook got its POST, the cycle persisted
C6_Witness ==
    /\ pc = "persisting"
    /\ branch = "dispatch"
    /\ deliveryFailed
    /\ Len(webhooks) = 2
    /\ lastAnnouncementId = announcements[1].id
    /\ storage["lastAnnouncementId"] = << announcements[1].id >>

\* C7: a cycle whose snapshot is non-empty returns with lastAnnouncementId
\* equal to the id of the first entry of the snapshot.
C7_MarkerIsNewestAfterCycle ==
    [][ EndOfCycle /\ announcements' # <<>> =>
            lastAnnouncementId' = announcements'[1].id ]_vars

\* a dispatching cycle over a full page has returned
C7_Witness ==
    /\ pc = "idle"
    /\ branch = "dispatch"
    /\ Len(announcements) = PageSize
    /\ lastAnnouncementId = announcements[1].id
    /\ lastAnnouncementId # announcements[Len(announcements)].id

\* C8: once set, lastAnnouncementId never becomes absent again and never
\* becomes smaller.
C8_MarkerNeverRolledBack ==
    [][ lastAnnouncementId # Null =>
            /\ lastAnnouncementId' # Null
            /\ lastAnnouncementId' >= lastAnnouncementId ]_vars

\* C9: a cycle that starts with no marker notifies nothing; with a non-empty
\* snapshot it sets and persists the newest id, with an empty one it leaves
\* the marker absent.
C9_FirstRunIsBaselineOnly ==
    /\ [](pc # "idle" /\ markerAtStart = Null => cycleNotified = <<>>)
    /\ [][ EndOfCycle /\ markerAtStart = Null =>
              /\ cycleNotified = <<>>
              /\ IF announcements' = <<>>
                 THEN lastAnnouncementId' = Null /\ storage' = storage
                 ELSE PersistedLatest ]_vars

\* the first run saw a page that holds a listing and only stored its newest id
C9_Witness ==
    /\ pc = "persisting"
    /\ branch = "baseline"
    /\ markerAtStart = Null
    /\ \E i \in 1 .. Len(announcements) : IsListing(announcements[i])
    /\ cycleNotified = <<>>
    /\ storage["lastAnnouncementId"] = << announcements[1].id >>

\* the entries a walk over S with marker m selects, in walk order
RECURSIVE SelectedFrom(_, _, _)
SelectedFrom(S, i, m) ==
    IF i > Len(S) \/ S[i].id = m THEN <<>>
    ELSE IF IsListing(S[i]) THEN << S[i].id >> \o SelectedFrom(S, i + 1, m)
    ELSE SelectedFrom(S, i + 1, m)

IsPrefix(s, t) == Len(s) <= Len(t) /\ SubSeq(t, 1, Len(s)) = s

\* C10: in a cycle every selected entry gets one notifyWebhooks invocation,
\* and an invocation makes one POST per webhook of the list as it was when
\* the invocation started, failed deliveries included.
C10_OneInvocationOnePostEach ==
    /\ pc \in {"notifying", "persisting"} /\ branch = "dispatch" =>
          /\ IsPrefix(cycleNotified, SelectedFrom(announcements, 1, markerAtStart))
          /\ pc = "persisting" =>
                cycleNotified = SelectedFrom(announcements, 1, markerAtStart)
    /\ pc = "notifying" =>
          /\ posts = PostsFor(hooksAtStart)
          /\ Len(deliveries) = Len(hooksAtStart)

\* an invocation over two webhooks: one delivery failed, the list changed
\* under it, and the POSTs are still those of the list it started with
C10_Witness ==
    /\ pc = "notifying"
    /\ Len(hooksAtStart) = 2
    /\ deliveryFailed
    /\ \A j \in 1 .. Len(deliveries) : deliveries[j] = "fulfilled"
    /\ webhooks # hooksAtStart
    /\ Len(posts) = 2

\* C11: one alarm() that finds the flag true calls setAlarm exactly once,
\* when it dispatches a new announcement and when its fetch fails and the
\* snapshot is empty.
C11_AlarmArmedExactlyOnce ==
    [][ (/\ EndOfCycle
         /\ isMonitoring
         /\ branch' \in {"dispatch", "empty"})
        => setAlarmCalls' = 1 ]_vars

\* C12: start() called while the flag is true changes nothing: no flag write,
\* no storage write, the pending alarm neither re-armed nor moved.  Called
\* while the flag is false it sets the flag, persists it and sets the alarm
\* one polling interval ahead, and nothing else.  Either way the flag is true
\* afterwards, so a second start() is the call that changes nothing.
C12_StartIsIdempotent ==
    [][ Start =>
          /\ isMonitoring'
          /\ IF isMonitoring
             THEN UNCHANGED vars
             ELSE /\ storage' = [storage EXCEPT !["isMonitoring"] = <<TRUE>>]
                  /\ alarmIn' = PollingInterval
                  /\ UNCHANGED << webhooks, watchList, lastAnnouncementId,
                                  feed, cycleVars, histVars >> ]_vars

\* start() has run and time has passed: the alarm is due, and a start() here
\* must leave it due
C12_Witness ==
    /\ isMonitoring
    /\ storage["isMonitoring"] = <<TRUE>>
    /\ alarmIn = 0
    /\ pc = "idle"

\* a step of alarm() in a cycle whose snapshot is empty
EmptyCycleStep ==
    \/ pc = "fetching" /\ pc' # "fetching" /\ announcements' = <<>>
    \/ pc = "emptyRearm" /\ pc' = "idle"

\* C13: a failed fetch gives the empty snapshot; a cycle whose snapshot is
\* empty changes none of lastAnnouncementId, the flag, the webhooks and the
\* watch list, in memory or in storage, notifies nothing, and returns with
\* the alarm set one polling interval ahead if the flag is true.
C13_EmptySnapshotChangesNothing ==
    [][ /\ FetchDone(FALSE) => announcements' = <<>>
        /\ EmptyCycleStep =>
              /\ UNCHANGED << memVars, storage, notifyCycles >>
              /\ cycleNotified' = <<>>
              /\ posts' = <<>>
              /\ pc' \in {"emptyRearm", "idle"}
        /\ EndOfCycle /\ announcements' = <<>> =>
              /\ branch' = "empty"
              /\ isMonitoring' => alarmIn' = PollingInterval ]_vars

\* a fetch failed while the feed held an announcement newer than the marker
\* and a webhook was registered: the cycle returned, everything as it was,
\* the alarm set
C13_Witness ==
    /\ pc = "idle"
    /\ branch = "empty"
    /\ announcements = <<>>
    /\ feed # <<>>
    /\ lastAnnouncementId # Null
    /\ feed[1].id # lastAnnouncementId
    /\ webhooks # <<>>
    /\ storage["lastAnnouncementId"] = << lastAnnouncementId >>
    /\ isMonitoring
    /\ alarmIn = PollingInterval

\* C14: a cycle that caught an exception returns with lastAnnouncementId and
\* the storage as they were and the alarm re-armed if the flag is true, and
\* that is all it did: no id is passed to notifyWebhooks by more than one
\* cycle because an earlier cycle failed.
C14_FailedCycleOnlySkipsUpdate ==
    [][ /\ EndOfCycle /\ branch' = "error" =>
              /\ lastAnnouncementId' = markerAtStart
              /\ storage' = storage
              /\ isMonitoring' => alarmIn' = PollingInterval
        /\ \A id \in Ids : notifyCycles'[id] <= 1 ]_vars

\* ids of all listing entries of S
AllListings(S) == { S[i].id : i \in { j \in 1 .. Len(S) : IsListing(S[j]) } }

\* C15: a cycle whose marker is set, differs from the id of the first entry
\* and occurs nowhere in its non-empty snapshot walks the snapshot to its
\* end, passes every listing entry of it to notifyWebhooks, and returns with
\* lastAnnouncementId set and persisted to the id of the first entry.
C15_MissingMarkerWalksWholePage ==
    [][ (/\ EndOfCycle
         /\ announcements' # <<>>
         /\ markerAtStart # Null
         /\ markerAtStart # announcements'[1].id
         /\ markerAtStart \notin SeqIds(announcements'))
        => /\ idx = Len(announcements') + 1
           /\ Range(cycleNotified) = AllListings(announcements')
           /\ PersistedLatest ]_vars

\* the marker had left the page: both entries of the page were notified and
\* the newest id stored
C15_Witness ==
    /\ pc = "persisting"
    /\ branch = "dispatch"
    /\ markerAtStart # Null
    /\ markerAtStart \notin SeqIds(announcements)
    /\ Len(announcements) = PageSize
    /\ Len(cycleNotified) = PageSize
    /\ lastAnnouncementId = announcements[1].id

\* C16: inside a dispatching cycle the entries are passed to notifyWebhooks
\* one at a time, at growing positions of the snapshot (newest first);
\* notifyWebhooks returns only when none of its deliveries is pending; and
\* while an invocation is running the cycle has neither updated nor
\* persisted lastAnnouncementId nor called setAlarm.
C16_DeliveriesFinishBeforePersist ==
    [][ /\ pc = "notifying" /\ (pc' # "notifying" \/ idx' # idx) =>
              \A j \in 1 .. Len(deliveries) : deliveries[j] # "pending"
        /\ pc = "notifying" /\ pc' = "notifying" /\ idx' # idx => idx' > idx
        /\ pc' = "notifying" =>
              /\ announcements'[idx'].id = cycleNotified'[Len(cycleNotified')]
              /\ \A i, j \in 1 .. Len(cycleNotified') :
                    i < j => cycleNotified'[i] > cycleNotified'[j]
              /\ lastAnnouncementId' = markerAtStart'
              /\ storage'["lastAnnouncementId"] = << markerAtStart' >>
              /\ setAlarmCalls' = 0 ]_vars

\* the second entry of a cycle is being delivered: one delivery has failed,
\* one is pending, and the marker is still the one the cycle started with
C16_Witness ==
    /\ pc = "notifying"
    /\ Len(cycleNotified) = 2
    /\ Len(deliveries) = 2
    /\ deliveryFailed
    /\ \E j \in 1 .. 2 : deliveries[j] = "pending"
    /\ lastAnnouncementId = markerAtStart
    /\ lastAnnouncementId # announcements[1].id
    /\ setAlarmCalls = 0

\* the value storage holds under key, dflt when the key was never written
Persisted(key, dflt) == IF storage[key] = <<>> THEN dflt ELSE storage[key][1]

\* C17: the constructor leaves every field equal to the value storage holds
\* for it, whatever that value is (an id of 0 included), with the empty
\* default only for a key never written; and if the restored flag is true an
\* alarm is set when it returns.
C17_RestartRestoresPersisted ==
    [][ Restart =>
          /\ webhooks' = Persisted("webhooks", <<>>)
          /\ watchList' = Persisted("watchList", <<>>)
          /\ isMonitoring' = Persisted("isMonitoring", FALSE)
          /\ lastAnnouncementId' = Persisted("lastAnnouncementId", Null)
          /\ isMonitoring' => alarmIn' # NoAlarm ]_vars

\* C18: whenever alarm() is not running, each field equals the value storage
\* holds for it; and a cycle whose put of lastAnnouncementId rejects returns
\* with the field at the value it had when the cycle started.
C18_MemoryNeverAheadOfStorage ==
    [][ /\ pc' = "idle" =>
              /\ webhooks' = Persisted("webhooks", <<>>)'
              /\ watchList' = Persisted("watchList", <<>>)'
              /\ isMonitoring' = Persisted("isMonitoring", FALSE)'
              /\ lastAnnouncementId' = Persisted("lastAnnouncementId", Null)'
        /\ PersistFailed => lastAnnouncementId' = markerAtStart ]_vars

\* C19: no request handled by fetch(request) (register, list and delete of
\* webhooks, set, get and clear of the watch list, start, stop) changes
\* lastAnnouncementId, in memory or in storage; no step of alarm() changes
\* the flag, the webhooks or the watch list, in memory or in storage; a
\* request that matches no route changes nothing.
C19_FrameOfMutators ==
    [][ /\ Admin =>
              /\ lastAnnouncementId' = lastAnnouncementId
              /\ storage'["lastAnnouncementId"] = storage["lastAnnouncementId"]
        /\ Cycle =>
              /\ UNCHANGED << isMonitoring, webhooks, watchList >>
              /\ \A k \in {"isMonitoring", "webhooks", "watchList"} :
                    storage'[k] = storage[k]
        /\ NotFound => UNCHANGED vars ]_vars

\* admin requests ran while a cycle was in flight: the webhooks changed under
\* a running invocation, the flag was cleared, and the marker is still the
\* one the cycle started with
C19_Witness ==
    /\ pc = "notifying"
    /\ webhooks # hooksAtStart
    /\ watchList # <<>>
    /\ ~isMonitoring
    /\ lastAnnouncementId = markerAtStart
    /\ storage["lastAnnouncementId"] = << markerAtStart >>
    /\ storage["webhooks"] = << webhooks >>

\* the step on which a notifyWebhooks invocation starts
InvocationStarts == pc' = "notifying" /\ (pc # "notifying" \/ idx' # idx)

\* C20: POST /webhook appends one entry at the end of the list, whether or
\* not the url is already there; DELETE /webhook/<url> removes every entry
\* with that url and keeps the others in their order; and a notifyWebhooks
\* invocation POSTs to the urls of the list as it is when the invocation
\* starts, so to no url deleted before and not registered again since.
C20_RegisterAppendsDeleteRemovesAll ==
    [][ /\ \A hook \in HookInputs :
              RegisterWebhook(hook) =>
                  /\ webhooks' = Append(webhooks, hook)
                  /\ storage'["webhooks"] = << webhooks' >>
        /\ \A u \in Urls :
              DeleteWebhook(u) =>
                  /\ webhooks' = SelectSeq(webhooks, LAMBDA w : w.url # u)
                  /\ \A j \in 1 .. Len(webhooks') : webhooks'[j].url # u
                  /\ storage'["webhooks"] = << webhooks' >>
        /\ InvocationStarts =>
              /\ Len(posts') = Len(webhooks)
              /\ \A k \in 1 .. Len(posts') : posts'[k] = webhooks[k].url ]_vars

\* one url was registered twice, an invocation started over both entries,
\* and a delete of that url has emptied the list
C20_Witness ==
    /\ pc = "notifying"
    /\ Len(hooksAtStart) = 2
    /\ hooksAtStart[1].url = hooksAtStart[2].url
    /\ posts = << hooksAtStart[1].url, hooksAtStart[1].url >>
    /\ webhooks = <<>>
    /\ storage["webhooks"] = << <<>> >>

====
